---- MODULE Spec2Model ----
(***************************************************************************)
(* Splango template tags (splango/templatetags/splangotags.py).           *)
(*                                                                         *)
(* Python strings are modelled as sequences of one-character strings, so   *)
(* that split, strip and concatenation are computed as the code computes   *)
(* them.  A template node is a record                                      *)
(*   [kind, exp_name, exp_variant, variants, node_list, s]                 *)
(* whose unused fields are empty.                                          *)
(***************************************************************************)
EXTENDS Naturals, Sequences, FiniteSets, TLC

VARIABLES
    pc,            \* where the program is: see the specifications below
    variants_str,  \* argument of ExperimentNode.__init__ under construction
    enode,         \* the ExperimentNode instance built from it
    source,        \* the template source: its tokens
    tokens,        \* parser.tokens: the tokens not yet consumed
    template,      \* the compiled template: a node list
    context,       \* the render context of the current pass: a dict
    stack,         \* NodeList.render calls in progress, outermost first
    err,           \* the exception that ended the render pass, if any
    result,        \* the string the render pass returned
    n_fed,         \* top-level nodes revealed so far in this pass
    n_bodies,      \* history: hyp bodies rendered so far in this pass
    n_calls,       \* declare_and_enroll calls the manager got in this pass
    n_passed,      \* history: experiment nodes rendered in this pass with
                   \* a request and an experiments manager
    last,          \* history: the step just taken
    decl,          \* history: per experiment name, the last declaration that
                   \* returned normally in this pass
    requests       \* the render passes of concurrent requests, each with
                   \* its own context

vars == <<pc, variants_str, enode, source, tokens, template, context, stack, err, result,
          n_fed, n_bodies, n_calls, n_passed, last, decl, requests>>

compileVars == <<variants_str, enode, source, tokens, template>>

\* Everything but the concurrent requests.
passVars == <<pc, variants_str, enode, source, tokens, template, context, stack, err,
              result, n_fed, n_bodies, n_calls, n_passed, last, decl>>

renderVars == <<source, tokens, template, context, stack, err, result, n_fed,
                n_bodies, n_calls, n_passed, last, decl, requests>>

(***************************************************************************)
(* Python string primitives used by the module.                            *)
(***************************************************************************)

\* str.strip() with no argument strips these characters.
Whitespace == {" ", "\t", "\n"}

\* The characters removed by .strip("\"'") in experiment() and hyp().
QuoteChars == {"\"", "'"}

RECURSIVE LStrip(_, _)
LStrip(s, cs) ==
    IF s # <<>> /\ Head(s) \in cs THEN LStrip(Tail(s), cs) ELSE s

RECURSIVE RStrip(_, _)
RStrip(s, cs) ==
    IF s # <<>> /\ s[Len(s)] \in cs THEN RStrip(SubSeq(s, 1, Len(s) - 1), cs) ELSE s

\* s.strip(cs)
Strip(s, cs) == RStrip(LStrip(s, cs), cs)

\* s.split(sep) for a one-character separator: always at least one piece.
RECURSIVE Split(_, _)
Split(s, sep) ==
    IF \A i \in 1..Len(s) : s[i] # sep
    THEN <<s>>
    ELSE LET i == CHOOSE k \in 1..Len(s) :
                      s[k] = sep /\ \A j \in 1..(k - 1) : s[j] # sep
         IN  <<SubSeq(s, 1, i - 1)>> \o Split(SubSeq(s, i + 1, Len(s)), sep)

\* [f(x) for x in xs]
MapStrip(xs) == [i \in 1..Len(xs) |-> Strip(xs[i], Whitespace)]

\* Python truthiness of a string: "if v".
Truthy(v) == v # <<>>

(***************************************************************************)
(* Nodes.                                                                  *)
(***************************************************************************)

NoNode == [kind |-> "none", exp_name |-> <<>>, exp_variant |-> <<>>,
           variants |-> <<>>, node_list |-> <<>>, s |-> <<>>]

\* ExperimentNode.__init__: variants = [v.strip() for v in
\* variants_str.split(",") if v]
ExperimentNode(exp_name, vstr) ==
    [kind |-> "experiment", exp_name |-> exp_name, exp_variant |-> <<>>,
     variants |-> MapStrip(SelectSeq(Split(vstr, ","), Truthy)),
     node_list |-> <<>>, s |-> <<>>]

TextNode(s) ==
    [kind |-> "text", exp_name |-> <<>>, exp_variant |-> <<>>,
     variants |-> <<>>, node_list |-> <<>>, s |-> s]

\* HypNode.__init__
HypNode(exp_name, exp_variant, node_list) ==
    [kind |-> "hyp", exp_name |-> exp_name, exp_variant |-> exp_variant,
     variants |-> <<>>, node_list |-> node_list, s |-> <<>>]

(***************************************************************************)
(* The render context (a dict), the request, the manager, exceptions.      *)
(***************************************************************************)

CTX_PREFIX == "__splango__experiment__"
UNDECLARED_EXPERIMENT_WARNING == "Experiment has not yet been declared."
REQUEST_CONTEXT_PROCESSOR_WARNING == "Use of splangotags requires the request context processor."
SPLANGO_MIDDLEWARE_WARNING == "Use of splangotags requires the splango middleware."

NoError == [type |-> "none", msg |-> ""]
TemplateSyntaxError(msg) == [type |-> "TemplateSyntaxError", msg |-> msg]
\* What Python raises for request.experiments_manager on a request that has
\* no such attribute.
AttributeError(attr) == [type |-> "AttributeError", msg |-> attr]
\* Any exception raised inside exp_manager.declare_and_enroll.
ManagerError == [type |-> "ManagerError", msg |-> "declare_and_enroll"]

EmptyDict == [k \in {} |-> "None"]
\* key in d
Contains(d, k) == k \in DOMAIN d
\* d[key] = value
DictSet(d, k, v) == [j \in DOMAIN d \cup {k} |-> IF j = k THEN v ELSE d[j]]

\* The key "request" of the context.
REQUEST == <<"request">>
\* CTX_PREFIX + self.exp_name
CtxKey(exp_name) == <<CTX_PREFIX>> \o exp_name

\* The request objects a context can hold: with an experiments manager, with
\* experiments_manager = None, and without the attribute.
RequestWithManager ==
    [cls |-> "Request", attrs |-> {"experiments_manager"}, experiments_manager |-> "manager"]
RequestWithNoneManager ==
    [cls |-> "Request", attrs |-> {"experiments_manager"}, experiments_manager |-> "None"]
RequestWithoutManager ==
    [cls |-> "Request", attrs |-> {}, experiments_manager |-> "None"]

\* The contexts a render pass can start with.
InitialContexts ==
    {EmptyDict} \cup
    {DictSet(EmptyDict, REQUEST, r) :
        r \in {RequestWithManager, RequestWithNoneManager, RequestWithoutManager}}

ExpNames == {<<"a">>, <<"b">>}
VariantNames == {<<"r">>, <<"b">>}

\* The variant handle the manager returns: an object with a name.
Variant(name) == [cls |-> "Variant", name |-> name]

NoCall == [raised |-> NoError, value |-> "nocall"]
\* What one call of exp_manager.declare_and_enroll can do: return the variant
\* it enrolled the visitor into, or raise.  The manager is a collaborator
\* outside this module, so every outcome is possible at every call.
ManagerOutcomes ==
    {[raised |-> NoError, value |-> Variant(n)] : n \in VariantNames}
    \cup {[raised |-> ManagerError, value |-> "none"]}

(***************************************************************************)
(* ExperimentNode.render and HypNode.render.                               *)
(***************************************************************************)

\* Bug: the variant is stored under the bare experiment name, a key the hyp
\* tag does not read.
StoreVariant_unprefixed(ctx, exp_name, variant) == DictSet(ctx, exp_name, variant)

\* Bug: context.setdefault(...), which keeps an entry that is already there.
StoreVariant_setdefault(ctx, exp_name, variant) ==
    IF Contains(ctx, CtxKey(exp_name)) THEN ctx
    ELSE DictSet(ctx, CtxKey(exp_name), variant)

\* Bug: the lookup is rebuilt for the new entry, which loses the entries of
\* the other experiments.
StoreVariant_reset(ctx, exp_name, variant) ==
    DictSet([k \in DOMAIN ctx \cap {REQUEST} |-> ctx[k]], CtxKey(exp_name), variant)

\* Bug: storing over an entry that is already there removes it.
StoreVariant_drop_existing(ctx, exp_name, variant) ==
    IF Contains(ctx, CtxKey(exp_name))
    THEN [k \in DOMAIN ctx \ {CtxKey(exp_name)} |-> ctx[k]]
    ELSE DictSet(ctx, CtxKey(exp_name), variant)

\* The call exp_manager.declare_and_enroll(self.exp_name, self.variants), as
\* the manager sees it.
DeclareAndEnroll(self) == [exp_name |-> self.exp_name, variants |-> self.variants]

\* context[CTX_PREFIX + self.exp_name] = variant
StoreVariant(ctx, exp_name, variant) == DictSet(ctx, CtxKey(exp_name), variant)

\* "if not exp_manager"
Falsy(exp_manager) == exp_manager = "None"

\* Bug: the first variant of the list is stored, not the one the manager
\* enrolled the visitor into.
ExperimentNode_render_first(ctx, self, outcome) ==
    IF ~Contains(ctx, REQUEST)
    THEN [raised |-> TemplateSyntaxError(REQUEST_CONTEXT_PROCESSOR_WARNING),
          ret |-> <<>>, context |-> ctx, called |-> FALSE, calls |-> <<>>]
    ELSE IF "experiments_manager" \notin ctx[REQUEST].attrs
    THEN [raised |-> AttributeError("experiments_manager"),
          ret |-> <<>>, context |-> ctx, called |-> FALSE, calls |-> <<>>]
    ELSE IF ctx[REQUEST].experiments_manager = "None"
    THEN [raised |-> TemplateSyntaxError(SPLANGO_MIDDLEWARE_WARNING),
          ret |-> <<>>, context |-> ctx, called |-> FALSE, calls |-> <<>>]
    ELSE IF outcome.raised # NoError
    THEN [raised |-> outcome.raised, ret |-> <<>>, context |-> ctx, called |-> TRUE, calls |-> <<DeclareAndEnroll(self)>>]
    ELSE [raised |-> NoError, ret |-> <<>>,
          context |-> DictSet(ctx, CtxKey(self.exp_name), Variant(self.variants[1])),
          called |-> TRUE,
          calls |-> <<DeclareAndEnroll(self)>>]

\* Bug: an experiment already in the context is taken as declared and the
\* manager is not asked again.
ExperimentNode_render_cached(ctx, self, outcome) ==
    IF ~Contains(ctx, REQUEST)
    THEN [raised |-> TemplateSyntaxError(REQUEST_CONTEXT_PROCESSOR_WARNING),
          ret |-> <<>>, context |-> ctx, called |-> FALSE, calls |-> <<>>]
    ELSE IF "experiments_manager" \notin ctx[REQUEST].attrs
    THEN [raised |-> AttributeError("experiments_manager"),
          ret |-> <<>>, context |-> ctx, called |-> FALSE, calls |-> <<>>]
    ELSE IF ctx[REQUEST].experiments_manager = "None"
    THEN [raised |-> TemplateSyntaxError(SPLANGO_MIDDLEWARE_WARNING),
          ret |-> <<>>, context |-> ctx, called |-> FALSE, calls |-> <<>>]
    ELSE IF Contains(ctx, CtxKey(self.exp_name))
    THEN [raised |-> NoError, ret |-> <<>>, context |-> ctx, called |-> FALSE, calls |-> <<>>]
    ELSE IF outcome.raised # NoError
    THEN [raised |-> outcome.raised, ret |-> <<>>, context |-> ctx, called |-> TRUE, calls |-> <<DeclareAndEnroll(self)>>]
    ELSE [raised |-> NoError, ret |-> <<>>,
          context |-> DictSet(ctx, CtxKey(self.exp_name), outcome.value),
          called |-> TRUE,
          calls |-> <<DeclareAndEnroll(self)>>]

\* Bug: a failed declare_and_enroll is tried a second time.
ExperimentNode_render_retry(ctx, self, outcome) ==
    IF ~Contains(ctx, REQUEST)
    THEN [raised |-> TemplateSyntaxError(REQUEST_CONTEXT_PROCESSOR_WARNING),
          ret |-> <<>>, context |-> ctx, called |-> FALSE, calls |-> <<>>]
    ELSE IF "experiments_manager" \notin ctx[REQUEST].attrs
    THEN [raised |-> AttributeError("experiments_manager"),
          ret |-> <<>>, context |-> ctx, called |-> FALSE, calls |-> <<>>]
    ELSE IF ctx[REQUEST].experiments_manager = "None"
    THEN [raised |-> TemplateSyntaxError(SPLANGO_MIDDLEWARE_WARNING),
          ret |-> <<>>, context |-> ctx, called |-> FALSE, calls |-> <<>>]
    ELSE IF outcome.raised # NoError
    THEN [raised |-> outcome.raised, ret |-> <<>>, context |-> ctx, called |-> TRUE,
          calls |-> <<DeclareAndEnroll(self), DeclareAndEnroll(self)>>]
    ELSE [raised |-> NoError, ret |-> <<>>,
          context |-> DictSet(ctx, CtxKey(self.exp_name), outcome.value),
          called |-> TRUE, calls |-> <<DeclareAndEnroll(self)>>]

\* Bug: the entry is written before the manager is called, with the first
\* variant of the list, and stays when the call fails.
ExperimentNode_render_prestore(ctx, self, outcome) ==
    IF ~Contains(ctx, REQUEST)
    THEN [raised |-> TemplateSyntaxError(REQUEST_CONTEXT_PROCESSOR_WARNING),
          ret |-> <<>>, context |-> ctx, called |-> FALSE, calls |-> <<>>]
    ELSE IF "experiments_manager" \notin ctx[REQUEST].attrs
    THEN [raised |-> AttributeError("experiments_manager"),
          ret |-> <<>>, context |-> ctx, called |-> FALSE, calls |-> <<>>]
    ELSE IF ctx[REQUEST].experiments_manager = "None"
    THEN [raised |-> TemplateSyntaxError(SPLANGO_MIDDLEWARE_WARNING),
          ret |-> <<>>, context |-> ctx, called |-> FALSE, calls |-> <<>>]
    ELSE IF outcome.raised # NoError
    THEN [raised |-> outcome.raised, ret |-> <<>>,
          context |-> DictSet(ctx, CtxKey(self.exp_name), Variant(self.variants[1])),
          called |-> TRUE, calls |-> <<DeclareAndEnroll(self)>>]
    ELSE [raised |-> NoError, ret |-> <<>>,
          context |-> DictSet(ctx, CtxKey(self.exp_name), outcome.value),
          called |-> TRUE, calls |-> <<DeclareAndEnroll(self)>>]

\* ExperimentNode.render(self, context); outcome is what declare_and_enroll
\* does if it is called.  Gives the exception raised (or NoError), the
\* returned string, the context afterwards and whether the manager was called.
ExperimentNode_render(ctx, self, outcome) ==
    IF ~Contains(ctx, REQUEST)
    THEN [raised |-> TemplateSyntaxError(REQUEST_CONTEXT_PROCESSOR_WARNING),
          ret |-> <<>>, context |-> ctx, called |-> FALSE, calls |-> <<>>]
    ELSE LET request == ctx[REQUEST] IN
         IF "experiments_manager" \notin request.attrs
         THEN [raised |-> AttributeError("experiments_manager"),
               ret |-> <<>>, context |-> ctx, called |-> FALSE, calls |-> <<>>]
         ELSE IF Falsy(request.experiments_manager)
         THEN [raised |-> TemplateSyntaxError(SPLANGO_MIDDLEWARE_WARNING),
               ret |-> <<>>, context |-> ctx, called |-> FALSE, calls |-> <<>>]
         ELSE IF outcome.raised # NoError
         THEN [raised |-> outcome.raised,
               ret |-> <<>>, context |-> ctx, called |-> TRUE, calls |-> <<DeclareAndEnroll(self)>>]
         ELSE [raised |-> NoError, ret |-> <<>>,
               context |-> StoreVariant(ctx, self.exp_name, outcome.value),
               called |-> TRUE,
          calls |-> <<DeclareAndEnroll(self)>>]

\* Bug: context.get(ctx_var) with a default instead of the membership test.
HypNode_get_enrolled_variant_name_default(ctx, self) ==
    IF ~Contains(ctx, CtxKey(self.exp_name))
    THEN [raised |-> NoError, value |-> <<>>]
    ELSE [raised |-> NoError, value |-> ctx[CtxKey(self.exp_name)].name]

\* HypNode._get_enrolled_variant_name(self, context)
HypNode_get_enrolled_variant_name(ctx, self) ==
    LET ctx_var == CtxKey(self.exp_name) IN
    IF ~Contains(ctx, ctx_var)
    THEN [raised |-> TemplateSyntaxError(UNDECLARED_EXPERIMENT_WARNING), value |-> <<>>]
    ELSE [raised |-> NoError, value |-> ctx[ctx_var].name]

\* Bug: the comparison inverted.
IsEnrolledVariant_inverted(exp_variant, enrolled_variant_name) ==
    exp_variant # enrolled_variant_name

\* self.exp_variant == enrolled_variant_name
IsEnrolledVariant(exp_variant, enrolled_variant_name) ==
    exp_variant = enrolled_variant_name

\* Bug: the body is rendered before the variant is compared, and its output
\* dropped afterwards.
HypNode_render_eager(ctx, self) ==
    IF ~Contains(ctx, CtxKey(self.exp_name))
    THEN [raised |-> TemplateSyntaxError(UNDECLARED_EXPERIMENT_WARNING),
          enter |-> FALSE, ret |-> <<>>]
    ELSE [raised |-> NoError, enter |-> TRUE, ret |-> <<>>]

\* HypNode.render(self, context) up to the call of self.node_list.render:
\* the exception raised, whether the body is rendered, and the string
\* returned when it is not.
HypNode_render(ctx, self) ==
    LET enrolled == HypNode_get_enrolled_variant_name(ctx, self) IN
    IF enrolled.raised # NoError
    THEN [raised |-> enrolled.raised, enter |-> FALSE, ret |-> <<>>]
    ELSE IF IsEnrolledVariant(self.exp_variant, enrolled.value)
    THEN [raised |-> NoError, enter |-> TRUE, ret |-> <<>>]
    ELSE [raised |-> NoError, enter |-> FALSE, ret |-> <<>>]

\* "return self.node_list.render(context)": HypNode.render returns what the
\* rendering of its body returned.
HypNode_render_return(body_out) == body_out

(***************************************************************************)
(* The tag functions experiment() and hyp(), and the parser that calls     *)
(* them.  A token is its type and the pieces token.split_contents() gives  *)
(* (for a text token, the text).  A tag function gets the tokens left in   *)
(* the parser and gives back the node, the tokens left afterwards and the  *)
(* exception raised.                                                       *)
(***************************************************************************)

EXPERIMENT_ARGS_MSG == "tag requires exactly three arguments"
HYP_ARGS_MSG == "tag requires exactly two arguments"
\* The parser's own errors: parser.parse(("endhyp",)) reaching the end of the
\* source, and a tag name no tag function is registered for.
UNCLOSED_TAG_MSG == "Unclosed tag"
INVALID_BLOCK_TAG_MSG == "Invalid block tag"

TextToken(s) == [token_type |-> "text", bits |-> <<s>>]
BlockToken(bits) == [token_type |-> "block", bits |-> bits]

\* experiment(parser, token)
experiment(parser_tokens, token) ==
    IF Len(token.bits) # 4
    THEN [raised |-> TemplateSyntaxError(EXPERIMENT_ARGS_MSG),
          node |-> NoNode, tokens |-> parser_tokens]
    ELSE LET exp_name == token.bits[2]
             variants_string == token.bits[4]
             clean_exp_name == Strip(exp_name, QuoteChars)
             clean_variants_str == Strip(variants_string, QuoteChars)
         IN  [raised |-> NoError,
              node |-> ExperimentNode(clean_exp_name, clean_variants_str),
              tokens |-> parser_tokens]

RECURSIVE Parser_parse(_, _, _)
RECURSIVE hyp(_, _)
RECURSIVE hyp_parse_first(_, _)

\* Bug: the block is parsed before the arguments are counted.
hyp_parse_first(parser_tokens, token) ==
    LET body == Parser_parse(parser_tokens, {<<"endhyp">>}, <<>>) IN
    IF body.raised # NoError
    THEN [raised |-> body.raised, node |-> NoNode, tokens |-> body.tokens]
    ELSE IF Len(token.bits) # 3
    THEN [raised |-> TemplateSyntaxError(HYP_ARGS_MSG),
          node |-> NoNode, tokens |-> Tail(body.tokens)]
    ELSE [raised |-> NoError,
          node |-> HypNode(Strip(token.bits[2], QuoteChars),
                           Strip(token.bits[3], QuoteChars), body.nodelist),
          tokens |-> Tail(body.tokens)]

\* Bug: parser.next_token() is left out, so the endhyp tag stays in the
\* parser.
hyp_keep_terminator(parser_tokens, token) ==
    IF Len(token.bits) # 3
    THEN [raised |-> TemplateSyntaxError(HYP_ARGS_MSG),
          node |-> NoNode, tokens |-> parser_tokens]
    ELSE LET body == Parser_parse(parser_tokens, {<<"endhyp">>}, <<>>) IN
         IF body.raised # NoError
         THEN [raised |-> body.raised, node |-> NoNode, tokens |-> body.tokens]
         ELSE [raised |-> NoError,
               node |-> HypNode(Strip(token.bits[2], QuoteChars),
                                Strip(token.bits[3], QuoteChars), body.nodelist),
               tokens |-> body.tokens]

\* hyp(parser, token)
hyp(parser_tokens, token) ==
    IF Len(token.bits) # 3
    THEN [raised |-> TemplateSyntaxError(HYP_ARGS_MSG),
          node |-> NoNode, tokens |-> parser_tokens]
    ELSE LET exp_name == token.bits[2]
             exp_variant == token.bits[3]
             \* node_list = parser.parse(("endhyp",))
             body == Parser_parse(parser_tokens, {<<"endhyp">>}, <<>>)
         IN  IF body.raised # NoError
             THEN [raised |-> body.raised, node |-> NoNode, tokens |-> body.tokens]
             ELSE \* parser.next_token()
                  LET rest == Tail(body.tokens)
                      clean_exp_name == Strip(exp_name, QuoteChars)
                      clean_variant_name == Strip(exp_variant, QuoteChars)
                  IN  [raised |-> NoError,
                       node |-> HypNode(clean_exp_name, clean_variant_name,
                                        body.nodelist),
                       tokens |-> rest]

\* @register.tag: the tag functions by tag name.
RegisteredTags == {<<"experiment">>, <<"hyp">>}
CompileTag(command, parser_tokens, token) ==
    IF command = <<"experiment">> THEN experiment(parser_tokens, token)
    ELSE hyp(parser_tokens, token)

\* parser.parse(parse_until), having collected nodelist so far: text tokens
\* become text nodes, a tag named in parse_until ends the list and stays in
\* the parser, every other tag is handed to its tag function.
Parser_parse(parser_tokens, parse_until, nodelist) ==
    IF parser_tokens = <<>>
    THEN IF parse_until # {}
         THEN [raised |-> TemplateSyntaxError(UNCLOSED_TAG_MSG),
               nodelist |-> <<>>, tokens |-> parser_tokens]
         ELSE [raised |-> NoError, nodelist |-> nodelist, tokens |-> parser_tokens]
    ELSE LET token == Head(parser_tokens)
             rest == Tail(parser_tokens)
         IN  IF token.token_type = "text"
             THEN Parser_parse(rest, parse_until,
                               Append(nodelist, TextNode(token.bits[1])))
             ELSE LET command == token.bits[1] IN
                  IF command \in parse_until
                  THEN [raised |-> NoError, nodelist |-> nodelist,
                        tokens |-> parser_tokens]
                  ELSE IF command \notin RegisteredTags
                  THEN [raised |-> TemplateSyntaxError(INVALID_BLOCK_TAG_MSG),
                        nodelist |-> <<>>, tokens |-> rest]
                  ELSE LET compiled == CompileTag(command, rest, token) IN
                       IF compiled.raised # NoError
                       THEN [raised |-> compiled.raised, nodelist |-> <<>>,
                             tokens |-> compiled.tokens]
                       ELSE Parser_parse(compiled.tokens, parse_until,
                                         Append(nodelist, compiled.node))

(***************************************************************************)
(* The templates rendered.                                                 *)
(***************************************************************************)

MaxNodes == 2
MaxDepth == 2

VariantStrs == {<<"r", ",", "b">>, <<"b">>}
HypTargets == VariantNames
ExpNodes == {ExperimentNode(n, s) : n \in ExpNames, s \in VariantStrs}
Leaves == {TextNode(<<"R">>)} \cup ExpNodes

\* The nodes whose hyp blocks nest at most d deep.
RECURSIVE NodesOfDepth(_)
NodesOfDepth(d) ==
    IF d = 0 THEN Leaves
    ELSE LET inner == NodesOfDepth(d - 1)
         IN  Leaves \cup
             {HypNode(n, v, b) : n \in ExpNames, v \in HypTargets,
                                 b \in {<<>>} \cup {<<x>> : x \in inner}}

TopNodes == NodesOfDepth(MaxDepth)

(***************************************************************************)
(* The render pass: Template.render -> NodeList.render -> node.render.     *)
(* A frame of the stack is one NodeList.render in progress: its nodes, the *)
(* index of the next node to render and the output joined so far.          *)
(***************************************************************************)

Frame(nodes) == [nodes |-> nodes, i |-> 1, out |-> <<>>]
Top == stack[Len(stack)]
Exhausted(f) == f.i > Len(f.nodes)
Cur == Top.nodes[Top.i]
AtNode(kind) ==
    /\ pc = "rendering"
    /\ stack # <<>>
    /\ ~Exhausted(Top)
    /\ Cur.kind = kind

\* A step of the pass, for the history: the node rendered, the context, the
\* declarations and the enclosing output before it, the depth of the
\* NodeList.render it ran in, what the manager did, what the node's render
\* raised or returned and whether a hyp went on to render its body.
NoStep == [op |-> "none", node |-> NoNode, ctx |-> EmptyDict, depth |-> 0,
           out |-> <<>>, before |-> EmptyDict,
           mgr |-> NoCall, called |-> FALSE, calls |-> <<>>, raised |-> NoError,
           entered |-> FALSE, ret |-> <<>>]

\* node.render returned ret: NodeList.render appends it and moves on.
Returned(ret) ==
    stack' = [stack EXCEPT ![Len(stack)] =
                 [@ EXCEPT !.out = @ \o ret, !.i = @ + 1]]

\* Bug: a hyp node catches what its body raises and renders as nothing.
Raised_caught_by_hyp(e) ==
    IF Len(stack) > 1
    THEN /\ pc' = pc
         /\ err' = err
         /\ stack' = [SubSeq(stack, 1, Len(stack) - 1) EXCEPT ![Len(stack) - 1] =
                         [@ EXCEPT !.i = @ + 1]]
    ELSE /\ pc' = "error"
         /\ err' = e
         /\ stack' = <<>>

\* node.render raised e: the exception unwinds every NodeList.render and
\* leaves the render pass.
Raised(e) ==
    /\ pc' = "error"
    /\ err' = e
    /\ stack' = <<>>

\* The context has a request whose experiments manager is there and truthy.
PassedChecks(ctx) ==
    /\ Contains(ctx, REQUEST)
    /\ "experiments_manager" \in ctx[REQUEST].attrs
    /\ ctx[REQUEST].experiments_manager # "None"

\* A compiled template waits for requests.
\* The requests being served at the same time, one thread each.
Requests == {1, 2}
NoPending == [raised |-> NoError, ret |-> <<>>, context |-> EmptyDict,
              called |-> FALSE, calls |-> <<>>]
NoRead == [exp_name |-> <<>>]
\* A request whose render pass has not begun.
IdleRequest ==
    [pc |-> "idle", context |-> EmptyDict, node |-> NoNode, pending |-> NoPending,
     mgr |-> NoCall, out |-> <<>>, err |-> NoError, n |-> 0,
     own |-> EmptyDict, read |-> NoRead]

InitWith(nodelist) ==
    /\ pc = "compiled"
    /\ variants_str = <<>>
    /\ enode = NoNode
    /\ source = <<>>
    /\ tokens = <<>>
    /\ template = nodelist
    /\ context = EmptyDict
    /\ stack = <<>>
    /\ err = NoError
    /\ result = <<>>
    /\ n_fed = 0
    /\ n_bodies = 0
    /\ n_calls = 0
    /\ n_passed = 0
    /\ last = NoStep
    /\ decl = EmptyDict
    /\ requests = [r \in Requests |-> IdleRequest]

\* Spec renders every template of at most MaxNodes top-level nodes from
\* TopNodes; its nodes become known one at a time (Feed).
Init == InitWith(<<>>)

\* A request arrives and the template is rendered against a fresh context.
StartRender ==
    /\ pc = "compiled"
    /\ \E c \in InitialContexts : context' = c
    /\ stack' = <<Frame(template)>>
    /\ pc' = "rendering"
    /\ last' = [NoStep EXCEPT !.op = "start"]
    /\ UNCHANGED <<compileVars, requests, err, result, n_fed, n_calls, n_passed, n_bodies, decl>>

\* The template's next top-level node becomes known.
Feed ==
    /\ pc = "rendering"
    /\ Len(stack) = 1
    /\ Exhausted(Top)
    /\ n_fed < MaxNodes
    /\ \E n \in TopNodes :
          /\ stack' = <<[nodes |-> <<n>>, i |-> 1, out |-> Top.out]>>
          /\ last' = [NoStep EXCEPT !.op = "feed", !.node = n, !.ctx = context]
    /\ n_fed' = n_fed + 1
    /\ UNCHANGED <<pc, compileVars, requests, context, err, result, n_bodies, n_calls,
                   n_passed, decl>>

\* TextNode.render
RenderText ==
    /\ AtNode("text")
    /\ Returned(Cur.s)
    /\ last' = [NoStep EXCEPT !.op = "text", !.node = Cur, !.ctx = context,
                              !.depth = Len(stack), !.out = Top.out,
                              !.before = decl, !.ret = Cur.s]
    /\ UNCHANGED <<pc, compileVars, requests, context, err, result, n_fed, n_calls, n_passed,
                   n_bodies, decl>>

\* ExperimentNode.render
RenderExperiment ==
    /\ AtNode("experiment")
    /\ \E outcome \in ManagerOutcomes :
          LET r == ExperimentNode_render(context, Cur, outcome) IN
          /\ last' = [NoStep EXCEPT !.op = "experiment", !.node = Cur,
                         !.ctx = context, !.depth = Len(stack),
                         !.out = Top.out, !.before = decl,
                         !.mgr = IF r.called THEN outcome ELSE NoCall,
                         !.called = r.called, !.calls = r.calls,
                         !.raised = r.raised, !.ret = r.ret]
          /\ context' = r.context
          /\ n_calls' = n_calls + Len(r.calls)
          /\ IF r.raised # NoError
             THEN /\ Raised(r.raised)
                  /\ UNCHANGED decl
             ELSE /\ Returned(r.ret)
                  /\ decl' = DictSet(decl, Cur.exp_name,
                                     [variants |-> Cur.variants, value |-> outcome.value])
                  /\ UNCHANGED <<pc, err>>
    /\ n_passed' = IF PassedChecks(context) THEN n_passed + 1 ELSE n_passed
    /\ UNCHANGED <<compileVars, requests, result, n_fed, n_bodies>>

\* HypNode.render, up to the call of self.node_list.render
RenderHyp ==
    /\ AtNode("hyp")
    /\ LET r == HypNode_render(context, Cur) IN
       /\ last' = [NoStep EXCEPT !.op = "hyp", !.node = Cur, !.ctx = context,
                      !.depth = Len(stack), !.out = Top.out, !.before = decl,
                      !.raised = r.raised, !.entered = r.enter, !.ret = r.ret]
       /\ IF r.raised # NoError
          THEN Raised(r.raised) /\ UNCHANGED n_bodies
          ELSE /\ IF r.enter
                  THEN /\ stack' = Append(stack, Frame(Cur.node_list))
                       /\ n_bodies' = n_bodies + 1
                  ELSE /\ Returned(r.ret)
                       /\ UNCHANGED n_bodies
               /\ UNCHANGED <<pc, err>>
    /\ UNCHANGED <<compileVars, requests, context, result, n_fed, n_calls, n_passed, decl>>

\* self.node_list.render(context) returns and HypNode.render returns its value.
ReturnBody ==
    /\ pc = "rendering"
    /\ Len(stack) > 1
    /\ Exhausted(Top)
    /\ LET parent == stack[Len(stack) - 1] IN
       /\ stack' = [SubSeq(stack, 1, Len(stack) - 1) EXCEPT ![Len(stack) - 1] =
                       [@ EXCEPT !.out = @ \o HypNode_render_return(Top.out),
                                 !.i = @ + 1]]
       /\ last' = [NoStep EXCEPT !.op = "return", !.node = parent.nodes[parent.i],
                      !.ctx = context, !.depth = Len(stack) - 1,
                      !.out = parent.out, !.before = decl, !.ret = Top.out]
    /\ UNCHANGED <<pc, compileVars, requests, context, err, result, n_fed, n_calls, n_passed,
                   n_bodies, decl>>

\* The outermost NodeList.render returns: the render pass is over.
Finish ==
    /\ pc = "rendering"
    /\ Len(stack) = 1
    /\ Exhausted(Top)
    /\ pc' = "done"
    /\ result' = Top.out
    /\ stack' = <<>>
    /\ last' = [NoStep EXCEPT !.op = "finish", !.ctx = context, !.ret = Top.out]
    /\ UNCHANGED <<compileVars, requests, context, err, n_fed, n_calls, n_passed, n_bodies, decl>>

\* The response is sent and the context is destroyed with the request.
EndRequest ==
    /\ pc \in {"done", "error"}
    /\ pc' = "compiled"
    /\ context' = EmptyDict
    /\ stack' = <<>>
    /\ err' = NoError
    /\ result' = <<>>
    /\ n_fed' = 0
    /\ n_bodies' = 0
    /\ n_calls' = 0
    /\ n_passed' = 0
    /\ last' = NoStep
    /\ decl' = EmptyDict
    /\ UNCHANGED <<compileVars, requests>>

Next ==
    \/ StartRender
    \/ Feed
    \/ RenderText
    \/ RenderExperiment
    \/ RenderHyp
    \/ ReturnBody
    \/ Finish
    \/ EndRequest

Spec == Init /\ [][Next]_vars

(***************************************************************************)
(* SpecSiblings: the templates made of one experiment tag followed by at   *)
(* most MaxSiblings hyp blocks for the same experiment, with pairwise      *)
(* distinct variants and a text as body, such as                           *)
(*   {% experiment "a" variants "r,b" %}                                   *)
(*   {% hyp "a" "r" %}R{% endhyp %}{% hyp "a" "b" %}B{% endhyp %}          *)
(***************************************************************************)

MaxSiblings == 2

\* "g" is a variant the manager never enrolls into.
SiblingTargets == VariantNames \cup {<<"g">>}
Texts == {<<"R">>, <<"B">>}

TargetsOf(hyps) == {hyps[i].exp_variant : i \in 1..Len(hyps)}

RECURSIVE SiblingHyps(_, _)
SiblingHyps(e, n) ==
    IF n = 0 THEN {<<>>}
    ELSE LET shorter == SiblingHyps(e, n - 1)
         IN  shorter \cup
             {Append(hs, HypNode(e, v, <<TextNode(x)>>)) :
                 hs \in shorter, v \in SiblingTargets, x \in Texts}

DistinctSiblingHyps(e) ==
    {hs \in SiblingHyps(e, MaxSiblings) : Cardinality(TargetsOf(hs)) = Len(hs)}

SiblingTemplates ==
    UNION {{<<d>> \o hs : hs \in DistinctSiblingHyps(d.exp_name)} : d \in ExpNodes}

InitSiblings == \E nodelist \in SiblingTemplates : InitWith(nodelist)

\* The render pass of a template that is known as a whole.
NextCompiled ==
    \/ StartRender
    \/ RenderText
    \/ RenderExperiment
    \/ RenderHyp
    \/ ReturnBody
    \/ Finish
    \/ EndRequest

SpecSiblings == InitSiblings /\ [][NextCompiled]_vars

\* The hyp blocks of the template whose variant is the enrolled one.
MatchingSiblings(enrolled) ==
    {i \in 2..Len(template) : template[i].exp_variant = enrolled}

\* C4: an experiment tag followed by hyp blocks for it with pairwise distinct
\* variants renders to exactly the body of the block whose variant the
\* manager enrolled the visitor into, to nothing if there is no such block,
\* and at most one body is rendered.
C4_SiblingsRenderEnrolledBody ==
    pc = "done" =>
        LET e == template[1].exp_name
            matching == MatchingSiblings(decl[e].value.name)
        IN  /\ Cardinality(matching) <= 1
            /\ n_bodies = Cardinality(matching)
            /\ result = IF matching = {} THEN <<>>
                        ELSE template[CHOOSE i \in matching : TRUE].node_list[1].s

\* The template of the example above, with the visitor enrolled into "b".
C4_Witness ==
    /\ pc = "done"
    /\ template = <<ExperimentNode(<<"a">>, <<"r", ",", "b">>),
                    HypNode(<<"a">>, <<"r">>, <<TextNode(<<"R">>)>>),
                    HypNode(<<"a">>, <<"b">>, <<TextNode(<<"B">>)>>)>>
    /\ decl[<<"a">>].value = Variant(<<"b">>)
    /\ result = <<"B">>
    /\ n_bodies = 1

(***************************************************************************)
(* SpecCompile: every template source of at most MaxTokens tokens from     *)
(* TokenVocab is compiled and, if that succeeds, rendered.                 *)
(***************************************************************************)

MaxTokens == 4

Quoted(s) == <<"\"">> \o s \o <<"\"">>

TokenVocab ==
    { TextToken(<<"R">>),
      \* {% experiment "a" variants "r,b" %}
      BlockToken(<<<<"experiment">>, Quoted(<<"a">>), <<"variants">>,
                   Quoted(<<"r", ",", "b">>)>>),
      \* {% experiment "a" %}
      BlockToken(<<<<"experiment">>, Quoted(<<"a">>)>>),
      \* {% experiment "a" variants "r,b" "b" %}
      BlockToken(<<<<"experiment">>, Quoted(<<"a">>), <<"variants">>,
                   Quoted(<<"r", ",", "b">>), Quoted(<<"b">>)>>),
      \* {% experiment 'a' with "b" %}
      BlockToken(<<<<"experiment">>, <<"'", "a", "'">>, <<"with">>,
                   Quoted(<<"b">>)>>),
      \* {% hyp "a" "r" %}
      BlockToken(<<<<"hyp">>, Quoted(<<"a">>), Quoted(<<"r">>)>>),
      \* {% hyp a b %}
      BlockToken(<<<<"hyp">>, <<"a">>, <<"b">>>>),
      \* {% hyp "a" %}
      BlockToken(<<<<"hyp">>, Quoted(<<"a">>)>>),
      \* {% hyp "a" "r" "b" %}
      BlockToken(<<<<"hyp">>, Quoted(<<"a">>), Quoted(<<"r">>), Quoted(<<"b">>)>>),
      \* {% endhyp %}
      BlockToken(<<<<"endhyp">>>>) }

RECURSIVE SourcesUpTo(_)
SourcesUpTo(n) ==
    IF n = 0 THEN {<<>>}
    ELSE LET shorter == SourcesUpTo(n - 1)
         IN  shorter \cup {Append(s, tok) : s \in shorter, tok \in TokenVocab}

InitCompile ==
    /\ pc = "source"
    /\ variants_str = <<>>
    /\ enode = NoNode
    /\ source \in SourcesUpTo(MaxTokens)
    /\ tokens = source
    /\ template = <<>>
    /\ context = EmptyDict
    /\ stack = <<>>
    /\ err = NoError
    /\ result = <<>>
    /\ n_fed = 0
    /\ n_bodies = 0
    /\ n_calls = 0
    /\ n_passed = 0
    /\ last = NoStep
    /\ decl = EmptyDict
    /\ requests = [r \in Requests |-> IdleRequest]

\* The template is compiled: parser.parse() over the whole source.
Compile ==
    /\ pc = "source"
    /\ LET compiled == Parser_parse(tokens, {}, <<>>) IN
       /\ tokens' = compiled.tokens
       /\ IF compiled.raised # NoError
          THEN /\ pc' = "parse_error"
               /\ err' = compiled.raised
               /\ UNCHANGED template
          ELSE /\ pc' = "compiled"
               /\ template' = compiled.nodelist
               /\ UNCHANGED err
    /\ UNCHANGED <<variants_str, enode, source, context, stack, result, n_fed,
                   n_calls, n_passed, n_bodies, last, decl, requests>>

NextCompile ==
    \/ Compile
    \/ NextCompiled

SpecCompile == InitCompile /\ [][NextCompile]_vars

\* An experiment tag or a hyp tag with the wrong number of arguments.
Malformed(token) ==
    /\ token.token_type = "block"
    /\ \/ token.bits[1] = <<"experiment">> /\ Len(token.bits) - 1 # 3
       \/ token.bits[1] = <<"hyp">> /\ Len(token.bits) - 1 # 2
MalformedAt == {i \in 1..Len(source) : Malformed(source[i])}
\* The number of tokens the parser has consumed.
Consumed == Len(source) - Len(tokens)
ExperimentArgsError == TemplateSyntaxError(EXPERIMENT_ARGS_MSG)
HypArgsError == TemplateSyntaxError(HYP_ARGS_MSG)

\* C10: a source holding an experiment tag without exactly 3 arguments or a
\* hyp tag without exactly 2 does not compile: compiling raises a
\* TemplateSyntaxError, no node list is produced and nothing is rendered (no
\* context, no manager call, no lookup entry).  The argument-count error is
\* raised at the malformed tag itself, at the latest at the first one of the
\* source, and the tag function has consumed no token after its own.
C10_WrongArgumentCountIsParseError ==
    /\ (MalformedAt # {} /\ pc # "source") =>
          /\ pc = "parse_error"
          /\ err.type = "TemplateSyntaxError"
          /\ template = <<>>
          /\ context = EmptyDict /\ decl = EmptyDict /\ last = NoStep
          /\ stack = <<>> /\ result = <<>>
          /\ \A i \in MalformedAt :
                /\ Consumed <= i
                /\ Consumed = i =>
                      err = IF source[i].bits[1] = <<"hyp">>
                            THEN HypArgsError ELSE ExperimentArgsError
    /\ (pc = "parse_error" /\ err \in {HypArgsError, ExperimentArgsError}) =>
          /\ Consumed \in MalformedAt
          /\ (err = HypArgsError) = (source[Consumed].bits[1] = <<"hyp">>)
          /\ tokens = SubSeq(source, Consumed + 1, Len(source))

\* A malformed hyp tag with tokens after it, which it left in the parser.
C10_Witness ==
    /\ pc = "parse_error"
    /\ err = HypArgsError
    /\ Consumed > 1
    /\ tokens # <<>>
    /\ tokens[1].bits[1] = <<"endhyp">>

(***************************************************************************)
(* Properties of the render pass.                                          *)
(***************************************************************************)

\* The step just taken rendered a node of this kind.
Rendered(kind) == last.op = kind
\* The lookup key of the node just rendered.
LastKey == CtxKey(last.node.exp_name)
\* The lookup held an entry for the node's experiment when it was rendered.
WasDeclared == Contains(last.ctx, LastKey)
UndeclaredExperimentError == TemplateSyntaxError(UNDECLARED_EXPERIMENT_WARNING)

\* C1: a hyp node rendered while the lookup holds no entry for its experiment
\* raises the undeclared-experiment error: the pass ends with that exception,
\* nothing is returned and the body is not rendered.
C1_UndeclaredHypRaises ==
    (Rendered("hyp") /\ ~WasDeclared) =>
        /\ pc = "error"
        /\ err = UndeclaredExperimentError
        /\ last.raised = UndeclaredExperimentError
        /\ ~last.entered
        /\ stack = <<>>
        /\ context = last.ctx

C1_Witness ==
    /\ Rendered("hyp")
    /\ ~WasDeclared
    /\ Contains(last.ctx, REQUEST)
    /\ DOMAIN decl # {}
    /\ pc = "error"

\* C2: a hyp node rendered for a declared experiment renders its body, against
\* the same context, exactly when its target variant equals the name of the
\* stored variant, and then returns what the body returned; otherwise it
\* returns the empty string.
C2_HypRendersBodyIffEnrolled ==
    /\ (Rendered("hyp") /\ WasDeclared) =>
          /\ pc = "rendering"
          /\ context = last.ctx
          /\ IF last.node.exp_variant = last.ctx[LastKey].name
             THEN /\ last.entered
                  /\ Len(stack) = last.depth + 1
                  /\ Top = Frame(last.node.node_list)
                  /\ stack[last.depth].out = last.out
             ELSE /\ ~last.entered
                  /\ Len(stack) = last.depth
                  /\ Top.out = last.out
    /\ Rendered("return") =>
          /\ Len(stack) = last.depth
          /\ Top.out = last.out \o last.ret
          /\ context = last.ctx

C2_Witness ==
    /\ Rendered("return")
    /\ last.ret # <<>>
    /\ last.node.exp_variant = context[LastKey].name
    /\ Top.out = last.ret

\* C3: when the target variant of a hyp node does not match, nothing of its
\* body is evaluated: no exception, no manager call, no change of the lookup,
\* no body rendering started, and the empty string returned.  A body is only
\* ever being rendered for the hyp node its enclosing rendering is at.
C3_UnmatchedBodyIsSkipped ==
    /\ (Rendered("hyp") /\ WasDeclared
            /\ last.node.exp_variant # last.ctx[LastKey].name) =>
          /\ pc = "rendering"
          /\ err = NoError
          /\ ~last.called
          /\ context = last.ctx
          /\ decl = last.before
          /\ Len(stack) = last.depth
          /\ Top.out = last.out
          /\ Top.i > 1 /\ Top.nodes[Top.i - 1] = last.node
    /\ (Rendered("hyp") /\ last.entered) =>
          (WasDeclared /\ last.node.exp_variant = last.ctx[LastKey].name)
    /\ \A d \in 2..Len(stack) :
          LET parent == stack[d - 1] IN
          /\ ~Exhausted(parent)
          /\ parent.nodes[parent.i].kind = "hyp"
          /\ stack[d].nodes = parent.nodes[parent.i].node_list

\* An unmatched hyp whose body would raise or would call the manager.
C3_Witness ==
    /\ Rendered("hyp")
    /\ WasDeclared
    /\ last.node.exp_variant # last.ctx[LastKey].name
    /\ last.node.node_list # <<>>
    /\ LET inner == last.node.node_list[1] IN
       \/ inner.kind = "hyp" /\ ~Contains(context, CtxKey(inner.exp_name))
       \/ inner.kind = "experiment"
    /\ pc = "rendering"

\* C5: within a render pass an experiment never goes back to undeclared: the
\* entry of every experiment declared in the pass is in the lookup, a lookup
\* entry stays until the pass is over, and a hyp node for a declared
\* experiment does not raise the undeclared-experiment error.
C5_DeclaredStaysDeclared ==
    /\ [](/\ \A e \in DOMAIN decl : Contains(context, CtxKey(e))
          /\ (Rendered("hyp") /\ last.node.exp_name \in DOMAIN decl) =>
                last.raised # UndeclaredExperimentError)
    /\ [][pc' # "compiled" => \A k \in DOMAIN context : Contains(context', k)]_vars

C5_Witness ==
    /\ Rendered("hyp")
    /\ last.node.exp_name \in DOMAIN decl
    /\ n_fed = MaxNodes
    /\ last.depth = 1
    /\ pc = "rendering"

RequestWiringError == TemplateSyntaxError(REQUEST_CONTEXT_PROCESSOR_WARNING)
ManagerWiringError == TemplateSyntaxError(SPLANGO_MIDDLEWARE_WARNING)

\* C6: an experiment node rendered without a request in the context raises
\* the request-wiring error; rendered with a request whose experiments manager
\* is absent or None it raises the manager-wiring error; the two differ.
C6_ConfigurationErrors ==
    Rendered("experiment") =>
        /\ ~Contains(last.ctx, REQUEST) =>
              (pc = "error" /\ err = RequestWiringError)
        /\ (/\ Contains(last.ctx, REQUEST)
            /\ last.ctx[REQUEST] \in {RequestWithoutManager, RequestWithNoneManager}) =>
              (pc = "error" /\ err = ManagerWiringError)
        /\ RequestWiringError # ManagerWiringError

\* The step just taken rendered an experiment node for a name already
\* declared in this pass with another variant list.
Redeclared ==
    /\ Rendered("experiment")
    /\ Contains(last.before, last.node.exp_name)
    /\ last.before[last.node.exp_name].variants # last.node.variants

\* C8 as claimed: a second declaration of the same name with a different
\* variant list is flagged: it raises.
C8_RedeclarationIsFlagged ==
    Redeclared => (pc = "error" /\ last.raised # NoError)

\* C8 amended: the node does not flag a second declaration with a different
\* variant list.  It calls the manager with the new list; what the manager
\* returns replaces the entry and the pass goes on; only an exception of the
\* manager call itself ends the pass.
C8_RedeclarationOverwrites ==
    Redeclared =>
        /\ last.called
        /\ last.raised = last.mgr.raised
        /\ IF last.mgr.raised = NoError
           THEN /\ pc = "rendering"
                /\ context[LastKey] = last.mgr.value
                /\ decl[last.node.exp_name].variants = last.node.variants
           ELSE /\ pc = "error"
                /\ err = ManagerError
                /\ context = last.ctx

C8_Witness ==
    /\ Redeclared
    /\ pc = "rendering"
    /\ context[LastKey] # last.ctx[LastKey]

\* C9: the lookup entry of every experiment declared in the pass is the
\* value the manager returned at the most recent declaration that returned.
C9_EntryIsLastManagerReturn ==
    \A e \in DOMAIN decl :
        /\ Contains(context, CtxKey(e))
        /\ context[CtxKey(e)] = decl[e].value

C9_Witness ==
    /\ Rendered("experiment")
    /\ last.raised = NoError
    /\ Contains(last.before, last.node.exp_name)
    /\ last.before[last.node.exp_name].value # decl[last.node.exp_name].value
    /\ context[LastKey] = last.mgr.value

\* C11: what a directive raises while rendering reaches the caller of the
\* render pass unchanged, also from inside the body of an enclosing hyp node:
\* the pass ends with that exception, returns no output, and the failing
\* node is the last one rendered.
C11_ErrorsPropagateUnchanged ==
    /\ (last.op \in {"text", "experiment", "hyp"} /\ last.raised # NoError) =>
          /\ pc = "error"
          /\ err = last.raised
          /\ stack = <<>>
          /\ result = <<>>
    /\ pc = "error" =>
          /\ err # NoError
          /\ last.op \in {"experiment", "hyp"}
          /\ last.raised = err
    /\ pc \in {"rendering", "done"} => (err = NoError /\ last.raised = NoError)

\* An undeclared hyp inside the body of a hyp that matched.
C11_Witness ==
    /\ pc = "error"
    /\ err = UndeclaredExperimentError
    /\ Rendered("hyp")
    /\ last.depth > 1

\* C17: an experiment node that renders successfully returns the empty string
\* and changes the lookup at the key of its own experiment only, so that hyp
\* nodes for other experiments decide as before; rendering a hyp node, and
\* returning from its body, changes nothing in the lookup.
C17_RenderChangesOwnKeyOnly ==
    /\ (Rendered("experiment") /\ last.raised = NoError) =>
          /\ last.ret = <<>>
          /\ Top.out = last.out
          /\ DOMAIN context = DOMAIN last.ctx \cup {LastKey}
          /\ \A k \in DOMAIN last.ctx : k # LastKey => context[k] = last.ctx[k]
          /\ \A e \in ExpNames \ {last.node.exp_name} : \A v \in HypTargets :
                HypNode_render(context, HypNode(e, v, <<>>))
                    = HypNode_render(last.ctx, HypNode(e, v, <<>>))
    /\ (Rendered("hyp") \/ Rendered("return") \/ Rendered("text")) =>
          context = last.ctx

\* A declaration made while another experiment already has its entry.
C17_Witness ==
    /\ Rendered("experiment")
    /\ last.raised = NoError
    /\ \E e \in ExpNames \ {last.node.exp_name} : Contains(last.ctx, CtxKey(e))
    /\ ~Contains(last.ctx, LastKey)
    /\ Contains(context, LastKey)

\* C12: in a render pass the manager gets as many declare_and_enroll calls
\* as experiment nodes were rendered with a request and a manager: each such
\* node makes exactly one call, with its own name and variant list, whatever
\* the call does, a node that fails the checks makes none, and no other step
\* makes any.
C12_OneManagerCallPerDeclaration ==
    /\ n_calls = n_passed
    /\ Rendered("experiment") =>
          last.calls = IF PassedChecks(last.ctx)
                       THEN <<[exp_name |-> last.node.exp_name,
                               variants |-> last.node.variants]>>
                       ELSE <<>>
    /\ ~Rendered("experiment") => last.calls = <<>>

\* A pass with two calls, the second of which failed.
C12_Witness ==
    /\ n_calls = 2
    /\ Rendered("experiment")
    /\ last.mgr.raised = ManagerError
    /\ last.depth > 1

\* The node just rendered repeats the last declaration of its experiment, and
\* the manager answered as it did then: same name, same variant list, same
\* variant returned.
RepeatedDeclaration ==
    /\ Rendered("experiment")
    /\ last.raised = NoError
    /\ Contains(last.before, last.node.exp_name)
    /\ last.before[last.node.exp_name].variants = last.node.variants
    /\ last.before[last.node.exp_name].value = last.mgr.value

\* C14: with a manager that answers a repeated declaration as it answered
\* the first, rendering the same experiment node again leaves the lookup as
\* the first rendering left it, and every hyp of that experiment decides as
\* it did before the second rendering.
C14_RepeatedDeclarationIsIdempotent ==
    RepeatedDeclaration =>
        /\ context = last.ctx
        /\ decl = last.before
        /\ pc = "rendering"
        /\ \A v \in HypTargets :
              HypNode_render(context, HypNode(last.node.exp_name, v, <<>>))
                  = HypNode_render(last.ctx, HypNode(last.node.exp_name, v, <<>>))

\* The repetition happens inside a hyp body of the experiment it repeats.
C14_Witness ==
    /\ RepeatedDeclaration
    /\ last.depth > 1
    /\ Contains(context, LastKey)

\* C18: an experiment node whose rendering fails leaves the lookup as it
\* was: without a request or a manager the manager is not called and nothing
\* is written; when declare_and_enroll fails, its exception ends the pass and
\* no entry is written or replaced.
C18_FailedRenderLeavesLookup ==
    (Rendered("experiment") /\ last.raised # NoError) =>
        /\ context = last.ctx
        /\ decl = last.before
        /\ pc = "error"
        /\ IF PassedChecks(last.ctx)
           THEN /\ last.mgr.raised = ManagerError
                /\ err = ManagerError
           ELSE /\ last.calls = <<>>
                /\ err \in {RequestWiringError, ManagerWiringError,
                            AttributeError("experiments_manager")}

\* The manager fails at a second declaration: the first entry is kept.
C18_Witness ==
    /\ Rendered("experiment")
    /\ err = ManagerError
    /\ Contains(last.ctx, LastKey)
    /\ context[LastKey] = decl[last.node.exp_name].value

\* An experiment tag with three arguments whose middle one is not the word
\* variants.
OtherKeyword(token) ==
    /\ token.token_type = "block"
    /\ token.bits[1] = <<"experiment">>
    /\ Len(token.bits) - 1 = 3
    /\ token.bits[3] # <<"variants">>

\* C15 as claimed: a source holding an experiment tag with three arguments
\* whose middle argument is another word than variants does not compile.
C15_KeywordVariantsIsRequired ==
    (pc # "source" /\ \E i \in 1..Len(source) : OtherKeyword(source[i])) =>
        pc = "parse_error"

\* The tags of a source in source order, each as the node it stands for
\* without a body, and endhyp as a marker of its own.
EndHyp == [kind |-> "endhyp"]
TagOf(token) ==
    IF token.token_type = "text" THEN TextNode(token.bits[1])
    ELSE IF token.bits[1] = <<"endhyp">> THEN EndHyp
    ELSE IF token.bits[1] = <<"experiment">>
    THEN ExperimentNode(Strip(token.bits[2], QuoteChars),
                        Strip(token.bits[4], QuoteChars))
    ELSE HypNode(Strip(token.bits[2], QuoteChars),
                 Strip(token.bits[3], QuoteChars), <<>>)
TagsOf(src) == [i \in 1..Len(src) |-> TagOf(src[i])]

\* The nodes of a node list written back as tags: a hyp node is its own tag,
\* then its body, then endhyp.
RECURSIVE Unparse(_)
Unparse(nodelist) ==
    IF nodelist = <<>> THEN <<>>
    ELSE LET node == Head(nodelist) IN
         (IF node.kind = "hyp"
          THEN <<[node EXCEPT !.node_list = <<>>]>> \o Unparse(node.node_list)
                   \o <<EndHyp>>
          ELSE <<node>>) \o Unparse(Tail(nodelist))

\* The number of hyp blocks open after the first n tokens of src.
IsTag(token, name) == token.token_type = "block" /\ token.bits[1] = name
RECURSIVE OpenBlocks(_, _)
OpenBlocks(src, n) ==
    IF n = 0 THEN 0
    ELSE LET before == OpenBlocks(src, n - 1) IN
         IF IsTag(src[n], <<"hyp">>) THEN before + 1
         ELSE IF IsTag(src[n], <<"endhyp">>) /\ before > 0 THEN before - 1
         ELSE before
\* Every tag has its arguments, every endhyp closes an open hyp block and
\* every hyp block is closed.
WellFormed(src) ==
    /\ \A i \in 1..Len(src) : ~Malformed(src[i])
    /\ \A i \in 1..Len(src) :
          IsTag(src[i], <<"endhyp">>) => OpenBlocks(src, i - 1) > 0
    /\ OpenBlocks(src, Len(src)) = 0

\* C16: a well-formed source compiles, and each hyp tag takes the tokens up
\* to and including its own endhyp: the parser is left empty, and writing
\* every hyp node of the template back as its tag, its body and an endhyp
\* gives the tags of the source in source order.  So the body of a hyp node
\* is what stood between its tag and the matching endhyp, a nested hyp has
\* its own endhyp, and what follows the endhyp is a sibling of the hyp node.
C16_HypConsumesThroughMatchingEndhyp ==
    (pc # "source" /\ WellFormed(source)) =>
        /\ pc # "parse_error"
        /\ tokens = <<>>
        /\ Unparse(template) = TagsOf(source)

\* A hyp block with a body, followed by a sibling.
C16_Witness ==
    /\ pc = "compiled"
    /\ WellFormed(source)
    /\ Len(template) = 2
    /\ template[1].kind = "hyp"
    /\ Len(template[1].node_list) = 1
    /\ template[2].kind = "text"

(***************************************************************************)
(* SpecRequests: two requests rendered at the same time, each by its own  *)
(* thread against its own context.  The nodes of the compiled template(s)  *)
(* are shared and only read; a step is one node's render, and the render   *)
(* of an experiment node is two steps, the manager call (line 79) and the   *)
(* store (line 80), so that the other request can act in between.          *)
(***************************************************************************)

\* The number of nodes one request's pass renders at most.
MaxReqNodes == 2

RequestHyps == {HypNode(e, v, <<TextNode(<<"R">>)>>) : e \in ExpNames, v \in HypTargets}

\* Bug: the lookup is one dict of the module, so that an entry stored for one
\* request shows in the context of every request.
WriteContext_shared(reqs, r, ctx) ==
    [q \in DOMAIN reqs |->
        IF q = r THEN [reqs[q] EXCEPT !.context = ctx]
        ELSE [reqs[q] EXCEPT !.context =
                 [k \in DOMAIN @ \cup (DOMAIN ctx \ {REQUEST}) |->
                     IF k \in DOMAIN ctx \ {REQUEST} THEN ctx[k] ELSE @[k]]]]

\* context[...] = variant writes into the context object the render call
\* was given: the one of request r.
WriteContext(reqs, r, ctx) == [reqs EXCEPT ![r].context = ctx]

InitRequests == InitWith(<<>>)

\* template.render(RequestContext(request)) begins for request r.
RequestStart(r) ==
    /\ requests[r].pc = "idle"
    /\ \E c \in InitialContexts :
          requests' = [requests EXCEPT ![r] = [IdleRequest EXCEPT !.pc = "rendering",
                                                                 !.context = c]]
    /\ UNCHANGED passVars

\* ExperimentNode.render for request r, up to the return of
\* declare_and_enroll.
RequestDeclare(r) ==
    /\ requests[r].pc = "rendering"
    /\ requests[r].n < MaxReqNodes
    /\ \E node \in ExpNodes, outcome \in ManagerOutcomes :
          LET res == ExperimentNode_render(requests[r].context, node, outcome) IN
          requests' = [requests EXCEPT ![r] =
              IF res.raised # NoError
              THEN [@ EXCEPT !.pc = "error", !.err = res.raised, !.n = @ + 1,
                             !.node = node, !.read = NoRead]
              ELSE [@ EXCEPT !.pc = "storing", !.pending = res, !.mgr = outcome,
                             !.n = @ + 1, !.node = node, !.read = NoRead]]
    /\ UNCHANGED passVars

\* ExperimentNode.render for request r, from the store to the return.
RequestStore(r) ==
    /\ requests[r].pc = "storing"
    /\ requests' = [WriteContext(requests, r, requests[r].pending.context)
                       EXCEPT ![r].pc = "rendering",
                              ![r].out = @ \o requests[r].pending.ret,
                              ![r].pending = NoPending,
                              ![r].own = DictSet(@, requests[r].node.exp_name,
                                                 requests[r].mgr.value)]
    /\ UNCHANGED passVars

\* HypNode.render for request r, its body included.
RequestHyp(r) ==
    /\ requests[r].pc = "rendering"
    /\ requests[r].n < MaxReqNodes
    /\ \E node \in RequestHyps :
          LET res == HypNode_render(requests[r].context, node)
              got == HypNode_get_enrolled_variant_name(requests[r].context, node)
              read == [exp_name |-> node.exp_name, raised |-> got.raised,
                       value |-> got.value, own |-> requests[r].own,
                       elsewhere |-> {q \in Requests \ {r} :
                                        Contains(requests[q].own, node.exp_name)}]
          IN
          requests' = [requests EXCEPT ![r] =
              IF res.raised # NoError
              THEN [@ EXCEPT !.pc = "error", !.err = res.raised, !.n = @ + 1,
                             !.node = node, !.read = read]
              ELSE [@ EXCEPT !.n = @ + 1, !.node = node, !.read = read,
                             !.out = @ \o (IF res.enter
                                           THEN HypNode_render_return(node.node_list[1].s)
                                           ELSE res.ret)]]
    /\ UNCHANGED passVars

\* The pass of request r is over, by return or by exception; its context goes
\* with the request.
RequestEnd(r) ==
    /\ requests[r].pc \in {"rendering", "error"}
    /\ requests' = [requests EXCEPT ![r] = IdleRequest]
    /\ UNCHANGED passVars



NextRequests ==
    \/ \E r \in Requests : RequestStart(r)
    \/ \E r \in Requests : RequestDeclare(r)
    \/ \E r \in Requests : RequestStore(r)
    \/ \E r \in Requests : RequestHyp(r)
    \/ \E r \in Requests : RequestEnd(r)

SpecRequests == InitRequests /\ [][NextRequests]_vars

\* C13: under every interleaving of two requests' passes the lookup of each
\* request holds what that request's own declarations stored and nothing
\* else: an experiment is declared in a request's context exactly when a
\* declaration of that request stored it, with the variant that declaration
\* got; and a hyp node reads the variant its own request stored last, or
\* raises when its own request stored none, whatever the other request has
\* declared.
C13_LookupIsPerRequest ==
    \A r \in Requests :
        LET q == requests[r] IN
        /\ \A e \in ExpNames :
              /\ Contains(q.context, CtxKey(e)) <=> Contains(q.own, e)
              /\ Contains(q.own, e) => q.context[CtxKey(e)] = q.own[e]
        /\ q.read # NoRead =>
              IF Contains(q.read.own, q.read.exp_name)
              THEN /\ q.read.raised = NoError
                   /\ q.read.value = q.read.own[q.read.exp_name].name
              ELSE q.read.raised = UndeclaredExperimentError

\* A hyp of one request raised for an experiment the other request had
\* declared, and the two requests hold different variants of another one.
C13_Witness ==
    \E r \in Requests :
        /\ requests[r].read # NoRead
        /\ requests[r].read.raised = UndeclaredExperimentError
        /\ requests[r].read.elsewhere # {}
        /\ \E e \in ExpNames, q \in Requests \ {r} :
              /\ Contains(requests[r].own, e)
              /\ Contains(requests[q].own, e)
              /\ requests[r].own[e] # requests[q].own[e]

(***************************************************************************)
(* SpecVariants: ExperimentNode.__init__ applied to every variants string  *)
(* of at most MaxCsvLen characters over CsvAlphabet.                       *)
(***************************************************************************)

MaxCsvLen == 4

CsvAlphabet == {"r", "b", ",", " "}

RECURSIVE StringsUpTo(_, _)
StringsUpTo(alphabet, n) ==
    IF n = 0 THEN {<<>>}
    ELSE LET shorter == StringsUpTo(alphabet, n - 1)
         IN  shorter \cup {Append(s, c) : s \in shorter, c \in alphabet}

InitVariants ==
    /\ pc = "args"
    /\ variants_str \in StringsUpTo(CsvAlphabet, MaxCsvLen)
    /\ enode = NoNode
    /\ source = <<>>
    /\ tokens = <<>>
    /\ template = <<>>
    /\ context = EmptyDict
    /\ stack = <<>>
    /\ err = NoError
    /\ result = <<>>
    /\ n_fed = 0
    /\ n_bodies = 0
    /\ n_calls = 0
    /\ n_passed = 0
    /\ last = NoStep
    /\ decl = EmptyDict
    /\ requests = [r \in Requests |-> IdleRequest]

Instantiate ==
    /\ pc = "args"
    /\ enode' = ExperimentNode(<<"a">>, variants_str)
    /\ pc' = "instantiated"
    /\ UNCHANGED <<variants_str, renderVars>>

NextVariants == Instantiate

SpecVariants == InitVariants /\ [][NextVariants]_vars

\* What the documentation asks of the variant list: split on ",", trim each
\* piece, drop the pieces that are empty after trimming, keep the order.
NonEmptyAfterTrim(v) == Strip(v, Whitespace) # <<>>
TrimmedNonEmptyPieces(csv) == MapStrip(SelectSeq(Split(csv, ","), NonEmptyAfterTrim))

\* C7: for every variants string the variant list of the ExperimentNode is
\* the trimmed, non-empty pieces of the string in order, and it never holds
\* an empty string.
C7_VariantsAreTrimmedNonEmptyPieces ==
    pc = "instantiated" =>
        /\ enode.variants = TrimmedNonEmptyPieces(variants_str)
        /\ \A i \in 1..Len(enode.variants) : enode.variants[i] # <<>>

====
